---- MODULE Spec2Model ----
(***************************************************************************)
(* PathPal backend (server.js): the accounts CSV store and the profile     *)
(* endpoints, the college catalogue endpoint with its cache, and the chat  *)
(* proxy.                                                                  *)
(*                                                                         *)
(* Text is modelled at character level: a JavaScript string is a sequence  *)
(* of one-character strings, so that the CSV codec (escapeCSV, the row     *)
(* scanner of readAccounts/parseCSV, trim, split) is computed the way the  *)
(* code computes it.                                                       *)
(***************************************************************************)
EXTENDS Integers, Sequences, FiniteSets, TLC

VARIABLES
    started,              \* the app.listen callback has run
    clock,                \* Date.now(), in milliseconds
    nTicks,               \* number of times the clock has advanced
    accountsFile,         \* storage/accounts.csv: the text after the header line
    nRequests,            \* number of profile requests handled so far
    csvFile,              \* data/us_universities_enriched.csv: text, or Missing
    collegeDataCache,     \* null (NoCache) or the parsed rows
    collegeDataCacheTime, \* null (NoTime) or the time of the last load
    GPT_API_KEY,          \* the configured credential ("" when none)
    chat,                 \* per POST /api/chat request: where its async handler is
    inFlight,             \* POST /api/profile requests received, handler not yet run
    last                  \* the last request handled and the response it got

vars == << started, clock, nTicks, accountsFile, nRequests, csvFile,
           collegeDataCache, collegeDataCacheTime, GPT_API_KEY, chat, inFlight,
           last >>

-----------------------------------------------------------------------------
(* Characters and JavaScript string primitives                             *)

DQ == "\""
NL == "\n"
SP == " "
COMMA == ","
BSL == "\\"

\* the characters String.prototype.trim removes (those the model's texts use)
IsWhitespace(c) == c \in {SP, NL, "\t", "\r"}

RECURSIVE TrimStart(_)
TrimStart(s) ==
    IF Len(s) > 0 /\ IsWhitespace(s[1]) THEN TrimStart(Tail(s)) ELSE s

RECURSIVE TrimEnd(_)
TrimEnd(s) ==
    IF Len(s) > 0 /\ IsWhitespace(s[Len(s)])
    THEN TrimEnd(SubSeq(s, 1, Len(s) - 1)) ELSE s

\* String.prototype.trim
Trim(s) == TrimEnd(TrimStart(s))

\* String.prototype.split(sep) for a one-character separator: the pieces
\* between consecutive separators
Split(s, sep) ==
    LET at == {i \in 1..Len(s) : s[i] = sep}
        Nth(k) == IF k = 0 THEN 0
                  ELSE IF k > Cardinality(at) THEN Len(s) + 1
                  ELSE CHOOSE i \in at : Cardinality({j \in at : j < i}) = k - 1
    IN  [k \in 1..(Cardinality(at) + 1) |-> SubSeq(s, Nth(k - 1) + 1, Nth(k) - 1)]

\* Array.prototype.filter(line => line.trim()) : drops blank lines
RECURSIVE NonBlank(_)
NonBlank(ls) ==
    IF ls = <<>> THEN <<>>
    ELSE IF Trim(Head(ls)) # <<>> THEN <<Head(ls)>> \o NonBlank(Tail(ls))
    ELSE NonBlank(Tail(ls))

\* Array.prototype.join(sep) on an array of strings
RECURSIVE Join(_, _)
Join(parts, sep) ==
    IF parts = <<>> THEN <<>>
    ELSE IF Len(parts) = 1 THEN parts[1]
    ELSE parts[1] \o sep \o Join(Tail(parts), sep)

StartsWith(s, c) == Len(s) > 0 /\ s[1] = c
EndsWith(s, c)   == Len(s) > 0 /\ s[Len(s)] = c

\* String.prototype.slice(1, -1)
Slice1m1(s) == IF Len(s) >= 2 THEN SubSeq(s, 2, Len(s) - 1) ELSE <<>>

\* value.replace(/"/g, '""')
RECURSIVE DoubleQuotes(_)
DoubleQuotes(s) ==
    IF s = <<>> THEN <<>>
    ELSE IF Head(s) = DQ THEN <<DQ, DQ>> \o DoubleQuotes(Tail(s))
    ELSE <<Head(s)>> \o DoubleQuotes(Tail(s))

\* value.replace(/""/g, '"') : leftmost, non-overlapping pairs
RECURSIVE UndoubleQuotes(_)
UndoubleQuotes(s) ==
    IF s = <<>> THEN <<>>
    ELSE IF Len(s) >= 2 /\ s[1] = DQ /\ s[2] = DQ
         THEN <<DQ>> \o UndoubleQuotes(SubSeq(s, 3, Len(s)))
    ELSE <<Head(s)>> \o UndoubleQuotes(Tail(s))

\* String.prototype.includes
Includes(s, sub) ==
    \E i \in 1..(Len(s) - Len(sub) + 1) : SubSeq(s, i, i + Len(sub) - 1) = sub

HasChar(s, c) == \E i \in 1..Len(s) : s[i] = c

Upper == << "A", "B", "C", "D", "E", "F", "G", "H", "I", "J", "K", "L", "M",
           "N", "O", "P", "Q", "R", "S", "T", "U", "V", "W", "X", "Y", "Z" >>
Lower == << "a", "b", "c", "d", "e", "f", "g", "h", "i", "j", "k", "l", "m",
           "n", "o", "p", "q", "r", "s", "t", "u", "v", "w", "x", "y", "z" >>

\* String.prototype.toLowerCase (ASCII letters)
LowerChar(c) ==
    IF \E i \in 1..Len(Upper) : Upper[i] = c
    THEN Lower[CHOOSE i \in 1..Len(Upper) : Upper[i] = c]
    ELSE c

ToLowerCase(s) == [i \in 1..Len(s) |-> LowerChar(s[i])]

IsDigit(c) == c \in {"0", "1", "2", "3", "4", "5", "6", "7", "8", "9"}

DigitChar(d) == <<"0", "1", "2", "3", "4", "5", "6", "7", "8", "9">>[d + 1]

DigitVal(c) == CHOOSE d \in 0..9 : DigitChar(d) = c

-----------------------------------------------------------------------------
(* JavaScript values.  A number is kept as its decimal text (String(n)).   *)
(* An array is an array of strings.                                        *)

Undef   == [t |-> "undefined", v |-> <<>>]
Null    == [t |-> "null", v |-> <<>>]
Str(s)  == [t |-> "string", v |-> s]
Bool(b) == [t |-> "boolean", v |-> b]
Num(s)  == [t |-> "number", v |-> s]
Arr(a)  == [t |-> "array", v |-> a]

\* ToBoolean: what `!x`, `x || y` and `x ? a : b` test
Truthy(x) ==
    CASE x.t = "undefined" -> FALSE
      [] x.t = "null"      -> FALSE
      [] x.t = "string"    -> x.v # <<>>
      [] x.t = "boolean"   -> x.v
      [] x.t = "number"    -> x.v # <<"0">>
      [] OTHER             -> TRUE

\* a || b
OrElse(a, b) == IF Truthy(a) THEN a ELSE b

\* a === b (two arrays are two objects, never identical)
StrictEq(a, b) ==
    /\ a.t = b.t
    /\ a.t # "array"
    /\ (a.t \in {"undefined", "null"} \/ a.v = b.v)

TrueText  == <<"t", "r", "u", "e">>
FalseText == <<"f", "a", "l", "s", "e">>
NullText  == <<"n", "u", "l", "l">>

\* String(value)
JSString(x) ==
    CASE x.t = "undefined" -> <<"u", "n", "d", "e", "f", "i", "n", "e", "d">>
      [] x.t = "null"      -> NullText
      [] x.t = "boolean"   -> IF x.v THEN TrueText ELSE FalseText
      [] x.t = "array"     -> Join(x.v, <<COMMA>>)
      [] OTHER             -> x.v

-----------------------------------------------------------------------------
(* JSON.stringify / JSON.parse, for the cells of majors and interests      *)

\* the quoted form of one string
RECURSIVE JSONEscape(_)
JSONEscape(s) ==
    IF s = <<>> THEN <<>>
    ELSE (CASE Head(s) = DQ  -> <<BSL, DQ>>
            [] Head(s) = BSL -> <<BSL, BSL>>
            [] Head(s) = NL  -> <<BSL, "n">>
            [] OTHER         -> <<Head(s)>>) \o JSONEscape(Tail(s))

JSONQuote(s) == <<DQ>> \o JSONEscape(s) \o <<DQ>>

\* JSON.stringify(array of strings)
JSONStringify(a) ==
    <<"[">> \o Join([i \in 1..Len(a) |-> JSONQuote(a[i])], <<COMMA>>) \o <<"]">>

RECURSIVE SkipWs(_, _)
SkipWs(s, j) == IF j <= Len(s) /\ IsWhitespace(s[j]) THEN SkipWs(s, j + 1) ELSE j

\* a string literal whose opening quote is at j - 1: [ok, val, next]
RECURSIVE JSONStringAt(_, _, _)
JSONStringAt(s, j, acc) ==
    IF j > Len(s) THEN [ok |-> FALSE, val |-> <<>>, next |-> j]
    ELSE IF s[j] = DQ THEN [ok |-> TRUE, val |-> acc, next |-> j + 1]
    ELSE IF s[j] = BSL
         THEN IF j + 1 <= Len(s) /\ s[j + 1] \in {DQ, BSL, "n"}
              THEN JSONStringAt(s, j + 2,
                       Append(acc, IF s[j + 1] = "n" THEN NL ELSE s[j + 1]))
              ELSE [ok |-> FALSE, val |-> <<>>, next |-> j]
    ELSE IF s[j] \in {NL, "\t", "\r"}
         THEN [ok |-> FALSE, val |-> <<>>, next |-> j]
    ELSE JSONStringAt(s, j + 1, Append(acc, s[j]))

\* the elements of an array after "[" or after a comma: [ok, val]
RECURSIVE JSONElementsAt(_, _, _)
JSONElementsAt(s, j, acc) ==
    LET k == SkipWs(s, j) IN
    IF k > Len(s) \/ s[k] # DQ THEN [ok |-> FALSE, val |-> <<>>]
    ELSE LET e == JSONStringAt(s, k + 1, <<>>)
             m == SkipWs(s, e.next)
         IN  IF ~e.ok \/ m > Len(s) THEN [ok |-> FALSE, val |-> <<>>]
             ELSE IF s[m] = "]"
                  THEN [ok |-> SkipWs(s, m + 1) > Len(s), val |-> Append(acc, e.val)]
             ELSE IF s[m] = COMMA
                  THEN JSONElementsAt(s, m + 1, Append(acc, e.val))
             ELSE [ok |-> FALSE, val |-> <<>>]

\* digits, optionally followed by "." and digits, no leading zero
IsJSONNumber(s) ==
    LET parts == Split(s, ".")
        digits(p) == Len(p) > 0 /\ \A i \in 1..Len(p) : IsDigit(p[i])
    IN  /\ Len(parts) \in {1, 2}
        /\ \A i \in 1..Len(parts) : digits(parts[i])
        /\ (Len(parts[1]) > 1 => parts[1][1] # "0")

\* JSON.parse(text): [ok, val]; ok = FALSE is a SyntaxError.  Covers arrays
\* of strings, string literals, numbers, true, false and null.
JSONParse(text) ==
    LET s == Trim(text) IN
    IF s = <<>> THEN [ok |-> FALSE, val |-> Undef]
    ELSE IF s[1] = "["
         THEN LET k == SkipWs(s, 2) IN
              IF k <= Len(s) /\ s[k] = "]"
              THEN [ok |-> SkipWs(s, k + 1) > Len(s), val |-> Arr(<<>>)]
              ELSE LET r == JSONElementsAt(s, 2, <<>>)
                   IN  [ok |-> r.ok, val |-> Arr(r.val)]
    ELSE IF s[1] = DQ
         THEN LET e == JSONStringAt(s, 2, <<>>)
              IN  [ok |-> e.ok /\ e.next > Len(s), val |-> Str(e.val)]
    ELSE IF s = TrueText THEN [ok |-> TRUE, val |-> Bool(TRUE)]
    ELSE IF s = FalseText THEN [ok |-> TRUE, val |-> Bool(FALSE)]
    ELSE IF s = NullText THEN [ok |-> TRUE, val |-> Null]
    ELSE IF IsJSONNumber(s) THEN [ok |-> TRUE, val |-> Num(s)]
    ELSE [ok |-> FALSE, val |-> Undef]

-----------------------------------------------------------------------------
(* The accounts store: storage/accounts.csv                                *)
(*                                                                         *)
(* The header line is the same constant at start-up and in every write, so *)
(* accountsFile holds the text that follows it.                            *)

Headers == << "user_id", "name", "grade", "gpa", "weighted", "sat", "act",
              "psat", "majors", "activities", "interests", "career_goals",
              "created_at", "updated_at" >>

HeaderSet == {Headers[i] : i \in 1..Len(Headers)}

\* obj[key], undefined when the object has no such property
Prop(obj, key) == IF key \in DOMAIN obj THEN obj[key] ELSE Undef

\* the last `width` decimal digits of n, zero-padded
RECURSIVE PaddedDigits(_, _)
PaddedDigits(n, width) ==
    IF width = 0 THEN <<>>
    ELSE PaddedDigits(n \div 10, width - 1) \o <<DigitChar(n % 10)>>

\* new Date(ms).toISOString(): a fixed-width text of digits and separators,
\* so that text order is time order
ToISOString(ms) == <<"T">> \o PaddedDigits(ms, 7) \o <<"Z">>

escapeCSV(value) ==
    IF value.t \in {"null", "undefined"} THEN <<>>
    ELSE LET stringValue == JSString(value) IN
         IF HasChar(stringValue, COMMA) \/ HasChar(stringValue, DQ)
               \/ HasChar(stringValue, NL)
         THEN <<DQ>> \o DoubleQuotes(stringValue) \o <<DQ>>
         ELSE stringValue

parseCSVValue(value) ==
    IF value = <<>> THEN <<>>
    ELSE IF StartsWith(value, DQ) /\ EndsWith(value, DQ)
         THEN UndoubleQuotes(Slice1m1(value))
    ELSE value

\* the character loop of readAccounts over one line: the row's values
RECURSIVE ScanAccountLine(_, _, _, _, _)
ScanAccountLine(line, j, values, current, inQuotes) ==
    IF j > Len(line) THEN Append(values, parseCSVValue(Trim(current)))
    ELSE IF line[j] = DQ
         THEN IF inQuotes /\ j + 1 <= Len(line) /\ line[j + 1] = DQ
              THEN ScanAccountLine(line, j + 2, values, Append(current, DQ), inQuotes)
              ELSE ScanAccountLine(line, j + 1, values, current, ~inQuotes)
    ELSE IF line[j] = COMMA /\ ~inQuotes
         THEN ScanAccountLine(line, j + 1,
                  Append(values, parseCSVValue(Trim(current))), <<>>, inQuotes)
    ELSE ScanAccountLine(line, j + 1, values, Append(current, line[j]), inQuotes)

\* JSON.parse of a majors/interests cell, [] when empty or unparsable
ParseListCell(cell) ==
    IF ~Truthy(cell) THEN Arr(<<>>)
    ELSE LET r == JSONParse(cell.v) IN IF r.ok THEN r.val ELSE Arr(<<>>)

\* the account object built from one row's values
AccountOfValues(values) ==
    LET raw == [h \in HeaderSet |->
                  Str(values[CHOOSE i \in 1..Len(Headers) : Headers[i] = h])]
    IN  [h \in HeaderSet |->
           CASE h = "weighted" ->
                  IF raw[h].v = TrueText THEN Bool(TRUE)
                  ELSE IF raw[h].v = FalseText THEN Bool(FALSE)
                  ELSE raw[h]
             [] h \in {"majors", "interests"} -> ParseListCell(raw[h])
             [] OTHER -> raw[h]]

RECURSIVE AccountsOfLines(_)
AccountsOfLines(lines) ==
    IF lines = <<>> THEN <<>>
    ELSE LET values == ScanAccountLine(Head(lines), 1, <<>>, <<>>, FALSE) IN
         (IF Len(values) >= Len(Headers) THEN <<AccountOfValues(values)>> ELSE <<>>)
             \o AccountsOfLines(Tail(lines))

\* readAccounts(): ok = FALSE is a read that throws (or a missing file)
readAccounts(file, ok) ==
    IF ~ok THEN <<>> ELSE AccountsOfLines(NonBlank(Split(file, NL)))

\* one cell of writeAccounts
CellOf(account, header) ==
    LET value == OrElse(Prop(account, header), Str(<<>>))
        listed == IF header \in {"majors", "interests"}
                  THEN IF value.t = "array" THEN Str(JSONStringify(value.v))
                       ELSE OrElse(value, Str(<<"[", "]">>))
                  ELSE value
        flagged == IF header = "weighted"
                   THEN IF StrictEq(listed, Bool(TRUE)) THEN Str(TrueText)
                        ELSE Str(FalseText)
                   ELSE listed
    IN  escapeCSV(flagged)

RowOf(account) == Join([i \in 1..Len(Headers) |-> CellOf(account, Headers[i])], <<COMMA>>)

\* the text writeAccounts(accounts) puts after the header line
RECURSIVE RowsText(_)
RowsText(accounts) ==
    IF accounts = <<>> THEN <<>>
    ELSE RowOf(Head(accounts)) \o <<NL>> \o RowsText(Tail(accounts))

writeAccounts(accounts) == RowsText(accounts)

\* accounts.findIndex(acc => acc.user_id === userId), 0 when there is none
FindIndex(accounts, userId) ==
    IF \E i \in 1..Len(accounts) : StrictEq(accounts[i]["user_id"], userId)
    THEN CHOOSE i \in 1..Len(accounts) :
            /\ StrictEq(accounts[i]["user_id"], userId)
            /\ \A k \in 1..(i - 1) : ~StrictEq(accounts[k]["user_id"], userId)
    ELSE 0

\* getAccount(userId): [found, account]
getAccount(file, ok, userId) ==
    LET accounts == readAccounts(file, ok)
        i == FindIndex(accounts, userId)
    IN  IF i > 0 THEN [found |-> TRUE, account |-> accounts[i]]
        ELSE [found |-> FALSE, account |-> <<>>]

\* { ...existing, ...accountData, updated_at: now }
MergedAccount(existing, accountData, now) ==
    [h \in (DOMAIN existing) \cup (DOMAIN accountData) \cup {"updated_at"} |->
        IF h = "updated_at" THEN Str(now)
        ELSE IF h \in DOMAIN accountData THEN accountData[h]
        ELSE existing[h]]

\* the object saveAccount pushes for an unseen user_id
NewAccount(accountData, now) ==
    [h \in HeaderSet |->
        CASE h = "user_id" -> Prop(accountData, "user_id")
          [] h = "weighted" ->
                IF Prop(accountData, "weighted").t # "undefined"
                THEN Prop(accountData, "weighted") ELSE Bool(TRUE)
          [] h \in {"majors", "interests"} -> OrElse(Prop(accountData, h), Arr(<<>>))
          [] h = "career_goals" ->
                OrElse(Prop(accountData, "career_goals"),
                       OrElse(Prop(accountData, "careerGoals"), Str(<<>>)))
          [] h \in {"created_at", "updated_at"} -> Str(now)
          [] OTHER -> OrElse(Prop(accountData, h), Str(<<>>))]

\* the accounts array saveAccount hands to writeAccounts
SavedAccounts(accounts, accountData, now) ==
    LET existingIndex == FindIndex(accounts, accountData["user_id"]) IN
    IF existingIndex > 0
    THEN [accounts EXCEPT ![existingIndex] =
             MergedAccount(accounts[existingIndex], accountData, now)]
    ELSE Append(accounts, NewAccount(accountData, now))

\* saveAccount writing the saved record alone, without the accounts it read
saveAccountAlone(file, accountData, now, readOk, writeOk) ==
    IF writeOk
    THEN writeAccounts(SavedAccounts(<<>>, accountData, now))
    ELSE file

\* saveAccount(accountData): the file after it; a failed write leaves the
\* file as it was (the failure modelled is the one at open)
saveAccount(file, accountData, now, readOk, writeOk) ==
    IF writeOk
    THEN writeAccounts(SavedAccounts(readAccounts(file, readOk), accountData, now))
    ELSE file

-----------------------------------------------------------------------------
(* The profile endpoints                                                   *)

ProfileKeys == { "user_id", "name", "grade", "gpa", "weighted", "sat", "act",
                 "psat", "majors", "activities", "interests", "careerGoals",
                 "career_goals" }

\* the accountData object POST /api/profile builds from the request body
AccountDataOf(profileData) ==
    [h \in HeaderSet \ {"created_at", "updated_at"} |->
        CASE h = "user_id" -> Prop(profileData, "user_id")
          [] h = "weighted" ->
                IF Prop(profileData, "weighted").t # "undefined"
                THEN Prop(profileData, "weighted") ELSE Bool(TRUE)
          [] h \in {"majors", "interests"} -> OrElse(Prop(profileData, h), Arr(<<>>))
          [] h = "career_goals" ->
                OrElse(Prop(profileData, "careerGoals"),
                       OrElse(Prop(profileData, "career_goals"), Str(<<>>)))
          [] OTHER -> OrElse(Prop(profileData, h), Str(<<>>))]

\* the body GET /api/profile answers with when getAccount finds nothing
DefaultProfile(userId) ==
    [user_id |-> userId, name |-> Str(<<>>), grade |-> Str(<<>>), gpa |-> Str(<<>>),
     weighted |-> Bool(TRUE), sat |-> Str(<<>>), act |-> Str(<<>>),
     psat |-> Str(<<>>), majors |-> Arr(<<>>), activities |-> Str(<<>>),
     interests |-> Arr(<<>>), careerGoals |-> Str(<<>>)]

\* the body GET /api/profile answers with for a stored account
ProfileOf(account) ==
    [user_id |-> account["user_id"],
     name |-> OrElse(account["name"], Str(<<>>)),
     grade |-> OrElse(account["grade"], Str(<<>>)),
     gpa |-> OrElse(account["gpa"], Str(<<>>)),
     weighted |-> IF account["weighted"].t # "undefined"
                  THEN account["weighted"] ELSE Bool(TRUE),
     sat |-> OrElse(account["sat"], Str(<<>>)),
     act |-> OrElse(account["act"], Str(<<>>)),
     psat |-> OrElse(account["psat"], Str(<<>>)),
     majors |-> OrElse(account["majors"], Arr(<<>>)),
     activities |-> OrElse(account["activities"], Str(<<>>)),
     interests |-> OrElse(account["interests"], Arr(<<>>)),
     careerGoals |-> OrElse(account["career_goals"], Str(<<>>))]

-----------------------------------------------------------------------------
(* The college catalogue: data/us_universities_enriched.csv and its cache  *)

CACHE_DURATION == 5 * 60 * 1000

\* the character loop of parseCSV over one line: quotes toggle and are dropped
RECURSIVE ScanCsvLine(_, _, _, _, _)
ScanCsvLine(line, j, values, current, inQuotes) ==
    IF j > Len(line) THEN Append(values, Trim(current))
    ELSE IF line[j] = DQ
         THEN ScanCsvLine(line, j + 1, values, current, ~inQuotes)
    ELSE IF line[j] = COMMA /\ ~inQuotes
         THEN ScanCsvLine(line, j + 1, Append(values, Trim(current)), <<>>, inQuotes)
    ELSE ScanCsvLine(line, j + 1, values, Append(current, line[j]), inQuotes)

\* the row object: header -> value (a repeated header keeps its last column)
RowOfValues(headers, values) ==
    [h \in {headers[i] : i \in 1..Len(headers)} |->
        LET index == CHOOSE i \in 1..Len(headers) :
                        /\ headers[i] = h
                        /\ \A k \in (i + 1)..Len(headers) : headers[k] # h
            value == values[index]
        IN  IF StartsWith(value, DQ) /\ EndsWith(value, DQ)
            THEN Slice1m1(value) ELSE value]

RECURSIVE RowsOfLines(_, _)
RowsOfLines(headers, lines) ==
    IF lines = <<>> THEN <<>>
    ELSE LET values == ScanCsvLine(Head(lines), 1, <<>>, <<>>, FALSE) IN
         (IF Len(values) >= Len(headers)
          THEN <<RowOfValues(headers, values)>> ELSE <<>>)
             \o RowsOfLines(headers, Tail(lines))

parseCSV(csvText) ==
    LET lines == NonBlank(Split(csvText, NL)) IN
    IF Len(lines) = 0 THEN <<>>
    ELSE LET split == Split(lines[1], COMMA)
             headers == [i \in 1..Len(split) |-> Trim(split[i])]
         IN  RowsOfLines(headers, Tail(lines))

\* loadCollegeData(): [] when the file cannot be read
loadCollegeData(file) == IF file.readable THEN parseCSV(file.text) ELSE <<>>

NoCache == [isNull |-> TRUE, rows |-> <<>>]
NoTime  == 0

\* the test with >= in place of >
CacheStaleFromBoundary(cache, cacheTime, now) ==
    cache.isNull \/ cacheTime = NoTime \/ (now - cacheTime) >= CACHE_DURATION

\* the test of getCollegeData: reload when there is no snapshot, no load time,
\* or the snapshot is older than CACHE_DURATION
CacheStale(cache, cacheTime, now) ==
    cache.isNull \/ cacheTime = NoTime \/ (now - cacheTime) > CACHE_DURATION

\* getCollegeData() recording the load time only when rows were loaded
CacheAfterGetTimingLoadedRows(cache, cacheTime, file, now) ==
    IF CacheStale(cache, cacheTime, now)
    THEN LET rows == loadCollegeData(file) IN
         [cache |-> [isNull |-> FALSE, rows |-> rows],
          time |-> IF rows = <<>> THEN cacheTime ELSE now]
    ELSE [cache |-> cache, time |-> cacheTime]

\* getCollegeData(): the cache and its time after the call
CacheAfterGet(cache, cacheTime, file, now) ==
    IF CacheStale(cache, cacheTime, now)
    THEN [cache |-> [isNull |-> FALSE, rows |-> loadCollegeData(file)], time |-> now]
    ELSE [cache |-> cache, time |-> cacheTime]

\* row.<column>, as a JavaScript value
Column(row, name) == IF name \in DOMAIN row THEN Str(row[name]) ELSE Undef

NameCol  == <<"n", "a", "m", "e">>
CityCol  == <<"c", "i", "t", "y">>
StateCol == <<"s", "t", "a", "t", "e">>
IdCol    == <<"i", "p", "e", "d", "s", "_", "i", "d">>
UnknownText == <<"U", "n", "k", "n", "o", "w", "n">>

\* the decimal text of a natural number
RECURSIVE NatText(_)
NatText(n) == IF n < 10 THEN <<DigitChar(n)>> ELSE NatText(n \div 10) \o <<DigitChar(n % 10)>>

\* the length of the longest prefix of s, from j, made of digits
RECURSIVE DigitRun(_, _)
DigitRun(s, j) == IF j <= Len(s) /\ IsDigit(s[j]) THEN 1 + DigitRun(s, j + 1) ELSE 0

\* parseFloat(text) for plain decimals: [nan, text of the number read]
ParseFloat(text) ==
    LET s == TrimStart(text)
        sign == IF Len(s) > 0 /\ s[1] \in {"-", "+"} THEN 1 ELSE 0
        whole == DigitRun(s, sign + 1)
        dot == sign + whole + 1
        frac == IF dot <= Len(s) /\ s[dot] = "." THEN DigitRun(s, dot + 1) ELSE 0
        stop == IF frac > 0 THEN dot + frac ELSE sign + whole
    IN  IF whole = 0 /\ frac = 0 THEN [nan |-> TRUE, text |-> <<>>]
        ELSE [nan |-> FALSE, text |-> SubSeq(s, 1, stop)]

\* parseNum of transformCollege, and the parse of acceptance_rate
ParseNum(val) ==
    IF ~Truthy(val) THEN Null
    ELSE LET parsed == ParseFloat(val.v) IN
         IF parsed.nan THEN Null ELSE Num(parsed.text)

\* transformCollege(row, index), index counted from 0
transformCollege(row, index) ==
    LET city == Column(row, CityCol)
        state == Column(row, StateCol)
        col(name) == Column(row, name)
    IN  [id |-> OrElse(Column(row, IdCol), Str(<<"c", "s", "v", "-">> \o NatText(index))),
         name |-> OrElse(Column(row, NameCol), Str(UnknownText)),
         location |-> IF Truthy(city) /\ Truthy(state)
                      THEN Str(city.v \o <<COMMA, SP>> \o state.v)
                      ELSE OrElse(city, OrElse(state, Str(UnknownText))),
         city |-> OrElse(city, Str(<<>>)),
         state |-> OrElse(state, Str(<<>>)),
         size |-> OrElse(col(<<"s","i","z","e","_","c","a","t","e","g","o","r","y">>),
                         Str(UnknownText)),
         type |-> OrElse(col(<<"t","y","p","e">>), Str(UnknownText)),
         acceptanceRate |->
             ParseNum(col(<<"a","c","c","e","p","t","a","n","c","e","_","r","a","t","e">>)),
         enrollment |-> ParseNum(col(<<"e","n","r","o","l","l","m","e","n","t">>)),
         region |-> OrElse(col(<<"r","e","g","i","o","n">>), Str(<<>>)),
         url |-> OrElse(col(<<"u","r","l">>), Str(<<>>))]

\* a filter that forgets the state column
RowMatchesNameOrCity(row, searchLower) ==
    LET name == ToLowerCase(OrElse(Column(row, NameCol), Str(<<>>)).v)
        city == ToLowerCase(OrElse(Column(row, CityCol), Str(<<>>)).v)
    IN  Includes(name, searchLower) \/ Includes(city, searchLower)

\* the filter of GET /api/colleges: does the row match the lower-cased search
RowMatches(row, searchLower) ==
    LET name == ToLowerCase(OrElse(Column(row, NameCol), Str(<<>>)).v)
        city == ToLowerCase(OrElse(Column(row, CityCol), Str(<<>>)).v)
        state == ToLowerCase(OrElse(Column(row, StateCol), Str(<<>>)).v)
    IN  Includes(name, searchLower) \/ Includes(city, searchLower)
            \/ Includes(state, searchLower)

\* Array.prototype.filter
RECURSIVE FilterRows(_, _)
FilterRows(rows, searchLower) ==
    IF rows = <<>> THEN <<>>
    ELSE (IF RowMatches(Head(rows), searchLower) THEN <<Head(rows)>> ELSE <<>>)
            \o FilterRows(Tail(rows), searchLower)

\* parseInt(text): [nan, n]
ParseInt(text) ==
    LET s == TrimStart(text)
        neg == Len(s) > 0 /\ s[1] = "-"
        sign == IF Len(s) > 0 /\ s[1] \in {"-", "+"} THEN 1 ELSE 0
        run == DigitRun(s, sign + 1)
        Value[k \in 0..run] ==
            IF k = 0 THEN 0 ELSE 10 * Value[k - 1] + DigitVal(s[sign + k])
    IN  IF run = 0 THEN [nan |-> TRUE, n |-> 0]
        ELSE [nan |-> FALSE, n |-> IF neg THEN 0 - Value[run] ELSE Value[run]]

\* parseInt(x) || dflt, x a query parameter (a string) or undefined, in which
\* case the destructuring default dflt is what parseInt gets
IntOrDefault(x, dflt) ==
    IF x.t = "undefined" THEN dflt
    ELSE LET r == ParseInt(JSString(x)) IN
         IF r.nan \/ r.n = 0 THEN dflt ELSE r.n

\* the index Array.prototype.slice turns a relative index into
RelativeIndex(k, len) ==
    IF k < 0 THEN (IF len + k > 0 THEN len + k ELSE 0)
    ELSE (IF k < len THEN k ELSE len)

\* Array.prototype.slice(start, end), indices counted from 0
Slice(a, start, end) ==
    LET from == RelativeIndex(start, Len(a))
        to == RelativeIndex(end, Len(a))
    IN  IF to > from THEN SubSeq(a, from + 1, to) ELSE <<>>

\* a pagination that counts pages from 0
PaginateFromZero(transformed, pageNum, perPage) ==
    LET start == pageNum * perPage
        end == start + perPage
    IN  Slice(transformed, start, end)

\* the pagination of GET /api/colleges
Paginate(transformed, pageNum, perPage) ==
    LET start == (pageNum - 1) * perPage
        end == start + perPage
    IN  Slice(transformed, start, end)

\* the response of GET /api/colleges over the rows getCollegeData returned
CollegesResponse(rows, search, page, per_page) ==
    IF Truthy(search) /\ search.t # "string"
    THEN [status |-> 500, results |-> <<>>, page |-> 0, per_page |-> 0, total |-> 0]
    ELSE LET colleges == IF Truthy(search)
                         THEN FilterRows(rows, ToLowerCase(search.v)) ELSE rows
             transformed == [i \in 1..Len(colleges) |->
                                transformCollege(colleges[i], i - 1)]
             pageNum == IntOrDefault(page, 1)
             perPage == IntOrDefault(per_page, 20)
         IN  [status |-> 200,
              results |-> Paginate(transformed, pageNum, perPage),
              page |-> pageNum, per_page |-> perPage,
              total |-> Len(transformed)]

-----------------------------------------------------------------------------
(* Bounds and inputs                                                       *)

MaxRequests == 2
MaxTicks == 1
MaxChats == 2
MaxElapses == 3

U1      == <<"u", "1">>
U2      == <<"u", "2">>
SpaceU1 == <<SP, "u", "1">>
Alice   == <<"A", "l", "i", "c", "e">>
AliceB  == <<"A", "l", "i", "c", "e", SP, "B">>
Gpa39   == <<"3", ".", "9">>
CS      == <<"C", "S">>

\* request bodies of POST /api/profile (a key that is absent is undefined)
ProfileBodies ==
    << ("user_id" :> Str(U1)) @@ ("name" :> Str(Alice)) @@ ("gpa" :> Str(Gpa39))
           @@ ("majors" :> Arr(<<CS>>)),
       ("user_id" :> Str(U1)) @@ ("name" :> Str(AliceB)),
       ("user_id" :> Str(U2)) @@ ("name" :> Str(<<"x", COMMA, "y">>))
           @@ ("weighted" :> Bool(FALSE)),
       ("user_id" :> Str(U2)) @@ ("name" :> Str(<<DQ, "a", DQ>>)),
       ("user_id" :> Str(U2)) @@ ("name" :> Str(<<"a", NL, "b">>)),
       ("user_id" :> Str(U2)) @@ ("name" :> Str(<<SP, "a">>))
           @@ ("majors" :> Arr(<<CS, <<"M", "a">>>>)),
       ("user_id" :> Str(SpaceU1)),
       ("user_id" :> Num(<<"1">>)),
       ("user_id" :> Str(<<>>)) @@ ("name" :> Str(Alice)),
       ("name" :> Str(Alice)) >>

\* user_id query parameters of GET /api/profile
ProfileQueries ==
    << Undef, Str(<<>>), Str(U1), Str(U2), Str(SpaceU1), Str(<<"1">>),
       Str(<<"z">>) >>

\* outcomes of the file system calls of one request: [readOk, writeOk]
IoOutcomes == << <<TRUE, TRUE>>, <<FALSE, TRUE>>, <<TRUE, FALSE>> >>

-----------------------------------------------------------------------------
(* Actions                                                                 *)

\* a validation that only catches a missing user_id, not an empty one
PostRejectedOnlyMissing(profileData) == Prop(profileData, "user_id").t = "undefined"

\* the validation of POST /api/profile
PostRejected(profileData) == ~Truthy(Prop(profileData, "user_id"))

\* the validation of GET /api/profile
GetRejected(userId) == ~Truthy(userId)

\* the app.listen callback: loads the catalogue, reads the accounts
Listen ==
    /\ ~started
    /\ started' = TRUE
    /\ LET got == CacheAfterGet(collegeDataCache, collegeDataCacheTime, csvFile, clock)
       IN  /\ collegeDataCache' = got.cache
           /\ collegeDataCacheTime' = got.time
    /\ UNCHANGED << clock, nTicks, accountsFile, nRequests, csvFile, GPT_API_KEY,
                    chat, inFlight, last >>

\* time passes
Tick(d) ==
    /\ nTicks < MaxTicks
    /\ clock' = clock + d
    /\ nTicks' = nTicks + 1
    /\ UNCHANGED << started, accountsFile, nRequests, csvFile, collegeDataCache,
                    collegeDataCacheTime, GPT_API_KEY, chat, inFlight, last >>

\* the handler of POST /api/profile, from req.body to the response: it has
\* no await and uses readFileSync/writeFileSync, so it runs in one step
HandlePostProfile(profileData, readOk, writeOk) ==
    /\ started
    /\ nRequests < MaxRequests
    /\ LET rejected == PostRejected(profileData) IN
       /\ accountsFile' =
             IF rejected THEN accountsFile
             ELSE saveAccount(accountsFile, AccountDataOf(profileData),
                              ToISOString(clock), readOk, writeOk)
       /\ last' = [op |-> "POST /api/profile", req |-> profileData,
                   status |-> IF rejected THEN 400 ELSE IF writeOk THEN 200 ELSE 500,
                   saveCalled |-> ~rejected, readOk |-> readOk, writeOk |-> writeOk]
    /\ nRequests' = nRequests + 1
    /\ UNCHANGED << started, clock, nTicks, csvFile, collegeDataCache,
                    collegeDataCacheTime, GPT_API_KEY, chat >>

\* POST /api/profile, received and handled
PostProfile(profileData, readOk, writeOk) ==
    /\ HandlePostProfile(profileData, readOk, writeOk)
    /\ UNCHANGED inFlight

\* GET /api/profile
GetProfile(userId, readOk) ==
    /\ started
    /\ nRequests < MaxRequests
    /\ LET rejected == GetRejected(userId)
           got == getAccount(accountsFile, readOk, userId)
       IN  last' = [op |-> "GET /api/profile", req |-> userId,
                    status |-> IF rejected THEN 400 ELSE 200,
                    found |-> ~rejected /\ got.found,
                    body |-> IF rejected THEN <<>>
                             ELSE IF got.found THEN ProfileOf(got.account)
                             ELSE DefaultProfile(userId),
                    saveCalled |-> FALSE, readOk |-> readOk]
    /\ nRequests' = nRequests + 1
    /\ UNCHANGED << started, clock, nTicks, accountsFile, csvFile,
                    collegeDataCache, collegeDataCacheTime, GPT_API_KEY, chat,
                    inFlight >>

NoFile == [readable |-> FALSE, text |-> <<>>]

\* the scenario dataset: one row whose quoted name holds a comma
ScenarioCsv ==
    [readable |-> TRUE,
     text |-> NameCol \o <<COMMA>> \o CityCol \o <<COMMA>> \o StateCol \o <<NL>>
              \o <<DQ, "A", COMMA, SP, "B", SP, "U", "n", "i", "v", "e", "r", "s",
                   "i", "t", "y", DQ, COMMA, "M", "e", "t", "r", "o", "p", "o", "l",
                   "i", "s", COMMA, "N", "Y", NL>>]

\* three rows, one with an empty state, and a short line that parseCSV drops
ThreeRowCsv ==
    [readable |-> TRUE,
     text |-> NameCol \o <<COMMA>> \o CityCol \o <<COMMA>> \o StateCol \o <<NL>>
              \o <<"U", "n", "a", COMMA, "A", "m", "e", "s", COMMA, "N", "Y", NL>>
              \o <<"Y", "u", "m", "a", SP, "U", COMMA, "Y", "u", "m", "a", COMMA,
                   "A", "Z", NL>>
              \o <<"x", COMMA, "y", NL>>
              \o <<"B", "a", "y", COMMA, "M", "a", "c", "o", "n", COMMA, NL>>]

HeaderOnlyCsv ==
    [readable |-> TRUE,
     text |-> NameCol \o <<COMMA>> \o CityCol \o <<COMMA>> \o StateCol \o <<NL>>]

Datasets == <<ScenarioCsv, ThreeRowCsv, HeaderOnlyCsv, NoFile>>

Metropolis == <<"m", "e", "t", "r", "o", "p", "o", "l", "i", "s">>

\* the search, page and per_page query parameters of GET /api/colleges
Searches == << Undef, Str(<<>>), Str(Metropolis), Str(<<"N", "y">>),
               Str(<<"m", "a">>), Str(<<"z", "z">>), Arr(<<<<"a">>, <<"b">>>>) >>
Pages    == << Undef, Str(<<"1">>), Str(<<"2">>), Str(<<"3">>), Str(<<"0">>),
               Str(<<"-", "1">>), Str(<<"a", "b", "c">>) >>
PerPages == << Undef, Str(<<"1">>), Str(<<"2">>), Str(<<"-", "1">>),
               Str(<<"2", "x">>) >>

\* GET /api/colleges
GetColleges(search, page, per_page) ==
    /\ started
    /\ LET got == CacheAfterGet(collegeDataCache, collegeDataCacheTime, csvFile, clock)
           res == CollegesResponse(got.cache.rows, search, page, per_page)
       IN  /\ collegeDataCache' = got.cache
           /\ collegeDataCacheTime' = got.time
           /\ last' = [op |-> "GET /api/colleges",
                       req |-> [search |-> search, page |-> page, per_page |-> per_page],
                       now |-> clock,
                       status |-> res.status, results |-> res.results,
                       page |-> res.page, per_page |-> res.per_page,
                       total |-> res.total]
    /\ UNCHANGED << started, clock, nTicks, accountsFile, nRequests, csvFile,
                    GPT_API_KEY, chat, inFlight >>

-----------------------------------------------------------------------------
(* The chat proxy: POST /api/chat                                          *)

\* the credential after start-up: the environment variable, else the trimmed
\* text of gpt-key.txt, else ''
KeyOf(env, file) ==
    IF env # <<>> THEN env
    ELSE IF file.readable THEN Trim(file.text) ELSE <<>>

SkKey == <<"s", "k">>

\* [environment variable, gpt-key.txt]
KeySources ==
    << <<<<>>, NoFile>>,
       <<<<>>, [readable |-> TRUE, text |-> <<SP, NL>>]>>,
       <<<<>>, [readable |-> TRUE, text |-> SkKey \o <<NL>>]>>,
       <<SkKey, NoFile>> >>

\* request bodies: message, and context (absent, a list, or a value that
\* cannot be spread)
ChatBodies ==
    << [message |-> Str(<<"h", "i">>), context |-> Undef],
       [message |-> Str(<<"h", "i">>), context |-> Arr(<<<<"c">>>>)],
       [message |-> Undef, context |-> Undef],
       [message |-> Str(<<"h", "i">>), context |-> Num(<<"5">>)] >>

\* what fetch settles with: a rejection, or a status and the kind of body
BodyKinds == {"unparsable", "null", "empty", "error", "noChoices", "completion"}
Statuses  == {200, 401, 500}
FetchOutcomes ==
    {[rejected |-> TRUE, status |-> 0, bodyKind |-> "none"]}
        \cup {[rejected |-> FALSE, status |-> st, bodyKind |-> k] :
                 st \in Statuses, k \in BodyKinds}

\* response.ok
ResponseOk(status) == status >= 200 /\ status <= 299

KeyMissing  == [status |-> 500, error |-> "GPT API key not configured"]
CatchAll    == [status |-> 500, error |-> "Failed to process request"]
Completion  == [status |-> 200, message |-> "completion text", usage |-> "usage"]

\* ...(context || []) throws for a truthy value that is not iterable
SpreadThrows(context) == Truthy(context) /\ context.t \notin {"array", "string"}

\* a handler that calls fetch without looking at the credential
ChatStartUnchecked(key, body) ==
    IF SpreadThrows(body.context) THEN [fetch |-> FALSE, response |-> CatchAll]
    ELSE [fetch |-> TRUE, response |-> CatchAll]

\* the handler up to its first await: the response it sends, or the call of fetch
ChatStart(key, body) ==
    IF key = <<>> THEN [fetch |-> FALSE, response |-> KeyMissing]
    ELSE IF SpreadThrows(body.context) THEN [fetch |-> FALSE, response |-> CatchAll]
    ELSE [fetch |-> TRUE, response |-> CatchAll]

\* the handler after response.json() settled
ChatReply(remote) ==
    IF remote.bodyKind = "unparsable" THEN CatchAll
    ELSE IF ~ResponseOk(remote.status)
         THEN IF remote.bodyKind = "null" THEN CatchAll
              ELSE [status |-> remote.status,
                    error |-> IF remote.bodyKind = "error" THEN "remote error text"
                              ELSE "API error"]
    ELSE IF remote.bodyKind = "completion" THEN Completion
    ELSE CatchAll

IdleChat == [pc |-> "idle", body |-> 0, fetchCalls |-> 0, responses |-> <<>>,
             remote |-> [rejected |-> FALSE, status |-> 0, bodyKind |-> "none"]]

\* a request arrives: the handler runs to its first await
ChatReceive(r, b) ==
    /\ started
    /\ chat[r].pc = "idle"
    /\ LET go == ChatStart(GPT_API_KEY, ChatBodies[b]) IN
       chat' = [chat EXCEPT ![r] =
                  IF go.fetch
                  THEN [@ EXCEPT !.pc = "fetching", !.body = b, !.fetchCalls = @ + 1]
                  ELSE [@ EXCEPT !.pc = "done", !.body = b,
                                 !.responses = Append(@, go.response)]]
    /\ UNCHANGED << started, clock, nTicks, accountsFile, nRequests, csvFile,
                    collegeDataCache, collegeDataCacheTime, GPT_API_KEY, inFlight,
                    last >>

\* await fetch(...) settles
ChatFetchSettles(r, outcome) ==
    /\ chat[r].pc = "fetching"
    /\ chat' = [chat EXCEPT ![r] =
                  IF outcome.rejected
                  THEN [@ EXCEPT !.pc = "done", !.remote = outcome,
                                 !.responses = Append(@, CatchAll)]
                  ELSE [@ EXCEPT !.pc = "parsing", !.remote = outcome]]
    /\ UNCHANGED << started, clock, nTicks, accountsFile, nRequests, csvFile,
                    collegeDataCache, collegeDataCacheTime, GPT_API_KEY, inFlight,
                    last >>

\* await response.json() settles, and the handler runs to its end
ChatJsonSettles(r) ==
    /\ chat[r].pc = "parsing"
    /\ chat' = [chat EXCEPT ![r] =
                  [@ EXCEPT !.pc = "done",
                            !.responses = Append(@, ChatReply(chat[r].remote))]]
    /\ UNCHANGED << started, clock, nTicks, accountsFile, nRequests, csvFile,
                    collegeDataCache, collegeDataCacheTime, GPT_API_KEY, inFlight,
                    last >>

-----------------------------------------------------------------------------
(* Specifications                                                          *)

\* the state after the module's top-level code ran, with the dataset file d
\* and the credential sources k
InitWith(d, k) ==
    /\ started = FALSE
    /\ clock = 1
    /\ nTicks = 0
    /\ accountsFile = <<>>
    /\ nRequests = 0
    /\ csvFile = Datasets[d]
    /\ collegeDataCache = NoCache
    /\ collegeDataCacheTime = NoTime
    /\ GPT_API_KEY = KeyOf(KeySources[k][1], KeySources[k][2])
    /\ chat = [r \in 1..MaxChats |-> IdleChat]
    /\ inFlight = {}
    /\ last = [op |-> "none"]

\* the accounts store and the profile endpoints
InitStore == InitWith(1, 1)

NextStore ==
    \/ Listen
    \/ Tick(1)
    \/ \E i \in 1..Len(ProfileBodies), o \in 1..Len(IoOutcomes) :
          PostProfile(ProfileBodies[i], IoOutcomes[o][1], IoOutcomes[o][2])
    \/ \E i \in 1..Len(ProfileQueries), readOk \in BOOLEAN :
          GetProfile(ProfileQueries[i], readOk)

SpecStore == InitStore /\ [][NextStore]_vars

\* the catalogue endpoint
InitCatalog == \E d \in 1..Len(Datasets) : InitWith(d, 1)

NextCatalog ==
    \/ Listen
    \/ \E s \in 1..Len(Searches), p \in 1..Len(Pages), pp \in 1..Len(PerPages) :
          GetColleges(Searches[s], Pages[p], PerPages[pp])

SpecCatalog == InitCatalog /\ [][NextCatalog]_vars

\* the chat proxy
InitChat == \E k \in 1..Len(KeySources) : InitWith(1, k)

NextChat ==
    \/ Listen
    \/ \E r \in 1..MaxChats, b \in 1..Len(ChatBodies) : ChatReceive(r, b)
    \/ \E r \in 1..MaxChats, outcome \in FetchOutcomes : ChatFetchSettles(r, outcome)
    \/ \E r \in 1..MaxChats : ChatJsonSettles(r)

SpecChat == InitChat /\ [][NextChat]_vars

-----------------------------------------------------------------------------
(* The catalogue cache over time: the clock advances and the dataset file  *)
(* is replaced, removed or restored between calls of getCollegeData        *)

\* the dataset files of this specification: each readable one has rows
CacheFiles == {ScenarioCsv, ThreeRowCsv, NoFile}

\* the steps the clock takes: a millisecond, or the whole cache window
Durations == {1, CACHE_DURATION}

\* time passes while the server runs
Elapse(d) ==
    /\ started
    /\ nTicks < MaxElapses
    /\ clock' = clock + d
    /\ nTicks' = nTicks + 1
    /\ UNCHANGED << started, accountsFile, nRequests, csvFile, collegeDataCache,
                    collegeDataCacheTime, GPT_API_KEY, chat, inFlight, last >>

\* the dataset file is replaced, removed or restored
DatasetChanges(file) ==
    /\ started
    /\ file # csvFile
    /\ csvFile' = file
    /\ UNCHANGED << started, clock, nTicks, accountsFile, nRequests,
                    collegeDataCache, collegeDataCacheTime, GPT_API_KEY, chat,
                    inFlight, last >>

InitCache ==
    \E d \in 1..Len(Datasets) : Datasets[d] \in CacheFiles /\ InitWith(d, 1)

NextCache ==
    \/ Listen
    \/ \E d \in Durations : Elapse(d)
    \/ \E file \in CacheFiles : DatasetChanges(file)
    \/ GetColleges(Undef, Undef, Undef)

SpecCache == InitCache /\ [][NextCache]_vars

-----------------------------------------------------------------------------
(* Concurrent saves: POST /api/profile requests that are all received      *)
(* before the handler of any of them runs, handled in any order            *)

\* a request is received; its handler has not run yet
PostArrives(b) ==
    /\ started
    /\ nRequests = 0
    /\ b \notin inFlight
    /\ Cardinality(inFlight) < MaxRequests
    /\ inFlight' = inFlight \cup {b}
    /\ UNCHANGED << started, clock, nTicks, accountsFile, nRequests, csvFile,
                    collegeDataCache, collegeDataCacheTime, GPT_API_KEY, chat,
                    last >>

\* the handler of a received request runs, from its first line to its response
PostRuns(b, readOk, writeOk) ==
    /\ b \in inFlight
    /\ HandlePostProfile(ProfileBodies[b], readOk, writeOk)
    /\ inFlight' = inFlight \ {b}

NextSaves ==
    \/ Listen
    \/ \E b \in 1..Len(ProfileBodies) : PostArrives(b)
    \/ \E b \in 1..Len(ProfileBodies), o \in 1..Len(IoOutcomes) :
          PostRuns(b, IoOutcomes[o][1], IoOutcomes[o][2])

SpecSaves == InitStore /\ [][NextSaves]_vars

-----------------------------------------------------------------------------
(* Properties of the accounts store and the profile endpoints (SpecStore)  *)

PostOp == "POST /api/profile"
GetOp  == "GET /api/profile"

\* this step handled a POST /api/profile request
PostStep == nRequests' = nRequests + 1 /\ last'.op = PostOp

\* this step handled a GET /api/profile request
GetStep == nRequests' = nRequests + 1 /\ last'.op = GetOp

\* this step is a POST /api/profile that reported success, its read succeeding
SavedStep == PostStep /\ last'.status = 200 /\ last'.readOk

\* two JavaScript values with the same type and content
SameValue(a, b) == a.t = b.t /\ a.v = b.v

\* the request body supplies the field stored under header h
Supplied(body, h) ==
    IF h = "career_goals"
    THEN "career_goals" \in DOMAIN body \/ "careerGoals" \in DOMAIN body
    ELSE h \in DOMAIN body

\* text order on timestamps of equal width
TextBefore(a, b) ==
    \E i \in 1..Len(a) :
        /\ i <= Len(b)
        /\ \A k \in 1..(i - 1) : a[k] = b[k]
        /\ IsDigit(a[i]) /\ IsDigit(b[i]) /\ DigitVal(a[i]) < DigitVal(b[i])

\* C1: a save for an identifier that already has a record keeps every field
\* the request did not supply: after the save, the record read back under the
\* identifier has the stored value in each unsupplied field except updated_at,
\* and the supplied name.
C1_SaveKeepsUnsuppliedFields ==
    [][ LET id == Prop(last'.req, "user_id")
            before == getAccount(accountsFile, TRUE, id)
            after == getAccount(accountsFile', TRUE, id)
        IN  (SavedStep /\ before.found) =>
               /\ after.found
               /\ \A h \in HeaderSet \ {"updated_at"} :
                     ~Supplied(last'.req, h) =>
                        SameValue(after.account[h], before.account[h])
      ]_vars

\* C2: the records readAccounts loads never hold the same user_id twice.
C2_UniqueUserIds ==
    LET accounts == readAccounts(accountsFile, TRUE) IN
    \A i, j \in 1..Len(accounts) :
        i # j => ~StrictEq(accounts[i]["user_id"], accounts[j]["user_id"])

\* C3: after the first successful save of an unseen key, getAccount(key)
\* returns a record with created_at = updated_at; after a later save of the
\* key, created_at is unchanged and updated_at is strictly greater.
C3_Timestamps ==
    [][ LET id == Prop(last'.req, "user_id")
            before == getAccount(accountsFile, TRUE, id)
            after == getAccount(accountsFile', TRUE, id)
        IN  SavedStep =>
               /\ after.found
               /\ ~before.found =>
                     SameValue(after.account["created_at"], after.account["updated_at"])
               /\ before.found =>
                     /\ SameValue(after.account["created_at"],
                                  before.account["created_at"])
                     /\ TextBefore(before.account["updated_at"].v,
                                   after.account["updated_at"].v)
      ]_vars

\* C4: what a save hands to writeAccounts reads back unchanged: for a request
\* whose identifier is text, readAccounts of the file written yields exactly
\* the records written, field by field.
C4_CodecRoundTrip ==
    [][ (SavedStep /\ Prop(last'.req, "user_id").t = "string") =>
           LET written == SavedAccounts(readAccounts(accountsFile, TRUE),
                                        AccountDataOf(last'.req), ToISOString(clock))
               loaded == readAccounts(accountsFile', TRUE)
           IN  /\ Len(loaded) = Len(written)
               /\ \A i \in 1..Len(written) : \A h \in HeaderSet :
                     SameValue(loaded[i][h], Prop(written[i], h))
      ]_vars

\* a request value that carries no identifier: absent, or the empty text
NoIdentifier(x) == x.t = "undefined" \/ (x.t = "string" /\ x.v = <<>>)

\* C8: a profile request without a non-empty identifier is answered 400,
\* does not call saveAccount and leaves the accounts file as it was; a GET
\* for an identifier that has no record is answered with the default
\* profile and leaves the file as it was.
C8_RejectedRequestsChangeNothing ==
    [][ /\ (PostStep /\ NoIdentifier(Prop(last'.req, "user_id"))) =>
              /\ last'.status = 400
              /\ ~last'.saveCalled
              /\ accountsFile' = accountsFile
        /\ (GetStep /\ NoIdentifier(last'.req)) =>
              /\ last'.status = 400
              /\ ~last'.saveCalled
              /\ accountsFile' = accountsFile
        /\ (GetStep /\ ~NoIdentifier(last'.req)
               /\ ~getAccount(accountsFile, last'.readOk, last'.req).found) =>
              /\ last'.status = 200
              /\ last'.body = DefaultProfile(last'.req)
              /\ readAccounts(accountsFile', TRUE) = readAccounts(accountsFile, TRUE)
              /\ accountsFile' = accountsFile
      ]_vars

\* C8 witness: with a record stored, a POST with an empty user_id was
\* answered 400
C8_Witness ==
    /\ last.op = PostOp
    /\ last.status = 400
    /\ "user_id" \in DOMAIN last.req
    /\ Len(readAccounts(accountsFile, TRUE)) > 0

\* C14: a save for key k that reaches writeAccounts leaves every other
\* record as it was: each record getAccount returned before the save under a
\* key other than k is returned with the same field values after it, also
\* when the read inside the save fails.
C14_SaveLeavesOtherRecords ==
    [][ (PostStep /\ last'.saveCalled /\ last'.status = 200) =>
           LET k == last'.req["user_id"]
               before == readAccounts(accountsFile, TRUE)
           IN  \A i \in 1..Len(before) :
                  LET j == before[i]["user_id"] IN
                  ~StrictEq(j, k) =>
                     getAccount(accountsFile', TRUE, j) =
                        getAccount(accountsFile, TRUE, j)
      ]_vars

-----------------------------------------------------------------------------
(* Properties of the catalogue endpoint (SpecCatalog)                      *)

CollegesOp == "GET /api/colleges"

\* the last request was a GET /api/colleges answered with success
CollegesAnswered == last.op = CollegesOp /\ last.status = 200

Min(a, b) == IF a < b THEN a ELSE b
Max(a, b) == IF a > b THEN a ELSE b

\* C5: for page >= 1 and perPage >= 1 the number of results is
\* min(perPage, max(0, total - (page - 1) * perPage)), total being the one
\* of the same response.
C5_PageSize ==
    (CollegesAnswered /\ last.page >= 1 /\ last.per_page >= 1) =>
        Len(last.results) =
            Min(last.per_page, Max(0, last.total - (last.page - 1) * last.per_page))

\* C5 witness: the second page of three entries, two per page, holds one
C5_Witness ==
    /\ CollegesAnswered
    /\ last.page = 2 /\ last.per_page = 2 /\ last.total = 3
    /\ Len(last.results) = 1

\* two characters that are the same letter, whatever their case
SameLetter(a, b) ==
    a = b \/ \E i \in 1..Len(Upper) : {a, b} = {Upper[i], Lower[i]}

\* text occurs in s at some offset, letters compared without case
ContainsIgnoringCase(s, text) ==
    \E off \in 0..(Len(s) - Len(text)) :
        \A k \in 1..Len(text) : SameLetter(s[off + k], text[k])

\* the name, city or state of the row contains the text
RowContains(row, text) ==
    \E col \in {NameCol, CityCol, StateCol} :
        col \in DOMAIN row /\ ContainsIgnoringCase(row[col], text)

ABUniversity == <<"A", COMMA, SP, "B", SP, "U", "n", "i", "v", "e", "r", "s", "i",
                  "t", "y">>

\* C6: with a non-empty search text, total is the number of cached rows
\* whose name, city or state contains the text without regard to case
\* (whatever page and per_page are), every entry returned comes from such a
\* row, and on the scenario dataset the search "metropolis" with default
\* paging returns the one entry named "A, B University".
C6_SearchTotal ==
    (CollegesAnswered /\ last.req.search.t = "string" /\ last.req.search.v # <<>>) =>
        LET text == last.req.search.v
            rows == collegeDataCache.rows
            matching == {i \in 1..Len(rows) : RowContains(rows[i], text)}
        IN  /\ last.total = Cardinality(matching)
            /\ \A k \in 1..Len(last.results) :
                  \E i \in matching :
                      /\ NameCol \in DOMAIN rows[i]
                      /\ last.results[k].name.v = rows[i][NameCol]
                      /\ last.results[k].city.v = rows[i][CityCol]
                      /\ last.results[k].state.v = rows[i][StateCol]
            /\ (/\ csvFile = ScenarioCsv
                /\ text = Metropolis
                /\ last.req.page.t = "undefined"
                /\ last.req.per_page.t = "undefined") =>
                  /\ Len(last.results) = 1
                  /\ last.results[1].name.v = ABUniversity

\* C6 witness: the scenario search found its one entry
C6_Witness ==
    /\ CollegesAnswered
    /\ csvFile = ScenarioCsv
    /\ last.req.search.t = "string" /\ last.req.search.v = Metropolis
    /\ last.total = 1
    /\ Len(last.results) = 1

\* a query parameter that parseInt reads no number from
NonNumeric(x) ==
    x.t = "string" /\ (x.v = <<>> \/ ~(IsDigit(x.v[1]) \/ x.v[1] \in {"-", "+", SP}))

\* C9: a non-numeric page or per_page becomes 1 or 20, and whenever the
\* start index (page - 1) * perPage lies outside [0, total) the response is
\* a success with no results.
C9_OutOfRangeIsEmpty ==
    (last.op = CollegesOp /\ last.req.search.t # "array") =>
        /\ last.status = 200
        /\ NonNumeric(last.req.page) => last.page = 1
        /\ NonNumeric(last.req.per_page) => last.per_page = 20
        /\ LET start == (last.page - 1) * last.per_page IN
           (start < 0 \/ start >= last.total) => last.results = <<>>

-----------------------------------------------------------------------------
(* Properties of concurrent saves (SpecSaves)                              *)

\* an identifier made of letters and digits
PlainId(x) ==
    /\ x.t = "string" /\ x.v # <<>>
    /\ \A k \in 1..Len(x.v) :
          IsDigit(x.v[k]) \/ \E i \in 1..Len(Lower) : x.v[k] \in {Lower[i], Upper[i]}

\* the identifier of request body b
IdOf(b) == Prop(ProfileBodies[b], "user_id")

\* the accounts file after b's handler has run from the present state, its
\* read and write succeeding (the handler then reports success)
FileAfterRun(b) ==
    saveAccount(accountsFile, AccountDataOf(ProfileBodies[b]), ToISOString(clock),
                TRUE, TRUE)

\* after that run the file lacks the record of the identifier a or of b's
LosingRun(a, b) ==
    \/ ~getAccount(FileAfterRun(b), TRUE, a).found
    \/ ~getAccount(FileAfterRun(b), TRUE, IdOf(b)).found

Others(accounts, id) ==
    SelectSeq(accounts, LAMBDA account : ~StrictEq(account["user_id"], id))

-----------------------------------------------------------------------------
(* Properties of the catalogue cache over time (SpecCache)                 *)

\* a step of SpecCache that leaves the clock and the dataset file alone calls
\* getCollegeData once: the listen callback, or a GET /api/colleges
GetCollegeDataStep == clock' = clock /\ csvFile' = csvFile

\* no snapshot exists, or more than five minutes have passed since the load
ReloadDue ==
    collegeDataCache.isNull \/ clock - collegeDataCacheTime > 5 * 60 * 1000

\* this step answered a GET /api/colleges at the present time
AnsweredNow == last'.op = CollegesOp /\ last'.now = clock

\* C11: a call of getCollegeData reloads the dataset file exactly when no
\* snapshot exists or more than five minutes have passed since the last load,
\* and then replaces snapshot and load time together; any other call leaves
\* both as they were and answers from the existing snapshot, whatever the
\* dataset file holds by then.
C11_ReloadExactlyWhenDue ==
    [][ GetCollegeDataStep =>
           IF ReloadDue
           THEN /\ ~collegeDataCache'.isNull
                /\ collegeDataCache'.rows = loadCollegeData(csvFile)
                /\ collegeDataCacheTime' = clock
                /\ AnsweredNow => last'.total = Len(loadCollegeData(csvFile))
           ELSE /\ collegeDataCache' = collegeDataCache
                /\ collegeDataCacheTime' = collegeDataCacheTime
                /\ AnsweredNow => last'.total = Len(collegeDataCache.rows)
      ]_vars

\* C11 witness: a request made exactly five minutes after the load, the
\* dataset file having changed since, was answered from the snapshot
C11_Witness ==
    /\ last.op = CollegesOp /\ last.now = clock
    /\ clock - collegeDataCacheTime = 5 * 60 * 1000
    /\ Len(loadCollegeData(csvFile)) # Len(collegeDataCache.rows)
    /\ last.total = Len(collegeDataCache.rows)

\* C12: when a reload finds the dataset file unreadable, getCollegeData
\* holds an empty dataset and the present time as the load time; a call made
\* while an empty dataset is at most five minutes old loads nothing and
\* answers with no entries, also when the file is readable again.
C12_FailedReloadIsCached ==
    [][ GetCollegeDataStep =>
           /\ (ReloadDue /\ ~csvFile.readable) =>
                  /\ collegeDataCache' = [isNull |-> FALSE, rows |-> <<>>]
                  /\ collegeDataCacheTime' = clock
                  /\ AnsweredNow => (last'.status = 200 /\ last'.results = <<>>)
           /\ (~ReloadDue /\ collegeDataCache.rows = <<>>) =>
                  /\ collegeDataCache' = collegeDataCache
                  /\ collegeDataCacheTime' = collegeDataCacheTime
                  /\ AnsweredNow => (last'.status = 200 /\ last'.results = <<>>)
      ]_vars

\* C12 witness: the load failed, the file is readable again with rows, and a
\* request within the five minutes was answered with no entries
C12_Witness ==
    /\ last.op = CollegesOp /\ last.now = clock
    /\ ~collegeDataCache.isNull /\ collegeDataCache.rows = <<>>
    /\ clock > collegeDataCacheTime
    /\ clock - collegeDataCacheTime <= 5 * 60 * 1000
    /\ csvFile.readable /\ loadCollegeData(csvFile) # <<>>
    /\ last.results = <<>>

-----------------------------------------------------------------------------
(* Properties of the chat proxy (SpecChat)                                 *)

\* C7: with no credential configured no request ever calls fetch, and every
\* request the handler has taken up is answered, once, with status 500.
C7_NoKeyNoRemoteCall ==
    GPT_API_KEY = <<>> =>
        \A r \in 1..MaxChats :
            /\ chat[r].fetchCalls = 0
            /\ chat[r].pc \in {"idle", "done"}
            /\ chat[r].pc = "done" =>
                  /\ Len(chat[r].responses) = 1
                  /\ chat[r].responses[1].status = 500

\* C7 witness: without a credential, a request that carried a context list
\* was answered
C7_Witness ==
    /\ GPT_API_KEY = <<>>
    /\ \E r \in 1..MaxChats :
          /\ chat[r].pc = "done"
          /\ chat[r].body > 0
          /\ ChatBodies[chat[r].body].context.t = "array"

\* C10: every request ends with exactly one response: the completion and
\* usage on remote success, the remote status with the remote error text
\* or 'API error' on a remote non-success status, and status 500 on any
\* other failure.
C10_OneResponsePerRequest ==
    \A r \in 1..MaxChats :
        LET remote == chat[r].remote
            answered == remote.bodyKind # "none" /\ ~remote.rejected
        IN  /\ chat[r].pc # "done" => chat[r].responses = <<>>
            /\ chat[r].pc = "done" =>
                  /\ Len(chat[r].responses) = 1
                  /\ LET res == chat[r].responses[1] IN
                     IF answered /\ ~ResponseOk(remote.status)
                     THEN /\ res.status = remote.status
                          /\ res.error \in {"remote error text", "API error"}
                     ELSE IF answered /\ remote.bodyKind = "completion"
                     THEN res = Completion
                     ELSE res.status = 500

====
